---- MODULE Spec2Model ----
(***************************************************************************)
(* A model of examples/vgg16/convert_vgg16.py: main() fetches the .npz     *)
(* archive when it is missing (download_model) and convert_model() writes  *)
(* the packed binary file and the JSON metadata sidecar.                   *)
(*                                                                         *)
(* Names are sequences of Unicode code points, files are sequences of      *)
(* bytes, array elements are integer-valued floats.  struct.pack('i') and  *)
(* struct.pack('f') are modelled byte by byte, little-endian (the native   *)
(* order of the x86/ARM hosts the script runs on).                         *)
(***************************************************************************)
EXTENDS Integers, Sequences, FiniteSets, TLC

\* Bounds of the model.
MaxMembers == 2
MaxCalls == 2

----------------------------------------------------------------------------
\* Arithmetic helpers.

RECURSIVE Pow2(_)
Pow2(n) == IF n = 0 THEN 1 ELSE 2 * Pow2(n - 1)

RECURSIVE Log2Floor(_)
Log2Floor(n) == IF n < 2 THEN 0 ELSE 1 + Log2Floor(n \div 2)

Abs(n) == IF n < 0 THEN 0 - n ELSE n

----------------------------------------------------------------------------
\* Mutant of Pack32: struct.pack('l', x), 8 bytes on a 64-bit Linux host.
Pack32_Long(x) ==
    LET u == IF x >= 0 THEN x ELSE (x + 2147483647) + 1
        ext == IF x < 0 THEN 255 ELSE 0
    IN  << u % 256,
           (u \div 256) % 256,
           (u \div 65536) % 256,
           (u \div 16777216) + (IF x < 0 THEN 128 ELSE 0),
           ext, ext, ext, ext >>

\* struct.pack('i', x): a 4-byte two's-complement integer, least significant
\* byte first.
Pack32(x) ==
    LET u == IF x >= 0 THEN x ELSE (x + 2147483647) + 1
    IN  << u % 256,
           (u \div 256) % 256,
           (u \div 65536) % 256,
           (u \div 16777216) + (IF x < 0 THEN 128 ELSE 0) >>

\* ndarray.astype(np.float32) on an integer-valued element: values of
\* magnitude below 2^24 are kept, larger ones are rounded to a 24-bit
\* significand, ties to even.
AsFloat32(v) ==
    LET a == Abs(v)
        e == Log2Floor(a)
        ulp == Pow2(e - 23)
        q == a \div ulp
        r == a % ulp
        m == IF 2 * r > ulp \/ (2 * r = ulp /\ q % 2 = 1) THEN q + 1 ELSE q
    IN  IF a < 16777216 THEN v
        ELSE IF v < 0 THEN 0 - (m * ulp) ELSE m * ulp

\* struct.pack('f', v) of a float32 value: IEEE-754 binary32 (sign bit,
\* 8-bit biased exponent, 23-bit fraction), least significant byte first.
PackF32(v) ==
    LET a == Abs(v)
        e == Log2Floor(a)
        mant == IF e <= 23 THEN a * Pow2(23 - e) ELSE a \div Pow2(e - 23)
        F == mant - 8388608
        E == e + 127
        s == IF v < 0 THEN 128 ELSE 0
    IN  IF v = 0 THEN << 0, 0, 0, 0 >>
        ELSE << F % 256,
                (F \div 256) % 256,
                ((E % 2) * 128) + (F \div 65536),
                s + (E \div 2) >>

\* struct.pack(f'{n}f', *values): the floats back to back.
PackFloats(values) ==
    [k \in 1..(4 * Len(values)) |->
        PackF32(values[((k - 1) \div 4) + 1])[((k - 1) % 4) + 1]]

----------------------------------------------------------------------------
\* str.encode('utf-8').
EncodeChar(c) ==
    IF c < 128 THEN << c >>
    ELSE IF c < 2048 THEN << 192 + (c \div 64), 128 + (c % 64) >>
    ELSE IF c < 65536
         THEN << 224 + (c \div 4096), 128 + ((c \div 64) % 64), 128 + (c % 64) >>
    ELSE << 240 + (c \div 262144), 128 + ((c \div 4096) % 64),
            128 + ((c \div 64) % 64), 128 + (c % 64) >>

RECURSIVE Encode(_)
Encode(name) ==
    IF name = << >> THEN << >>
    ELSE EncodeChar(Head(name)) \o Encode(Tail(name))

\* str.split(sep): scan the characters, closing a segment at every sep.
RECURSIVE SplitAcc(_, _, _, _)
SplitAcc(s, sep, k, cur) ==
    IF k > Len(s) THEN << cur >>
    ELSE IF s[k] = sep THEN << cur >> \o SplitAcc(s, sep, k + 1, << >>)
    ELSE SplitAcc(s, sep, k + 1, Append(cur, s[k]))

Split(s, sep) == SplitAcc(s, sep, 1, << >>)

\* str.endswith(suffix).
EndsWith(s, suffix) ==
    /\ Len(s) >= Len(suffix)
    /\ SubSeq(s, Len(s) - Len(suffix) + 1, Len(s)) = suffix

Slash == 47
SuffixW == << 47, 87 >>                                  \* "/W"
SuffixWeights == << 47, 119, 101, 105, 103, 104, 116, 115 >>  \* "/weights"

\* layer_name = name.split('/')[0]
LayerName(name) == Split(name, Slash)[1]

\* Mutant of ParamType: the suffixes tested without their '/'.
ParamType_NoSlash(name) ==
    IF EndsWith(name, << 87 >>) \/ EndsWith(name, Tail(SuffixWeights))
    THEN "weights" ELSE "biases"

\* param_type = "weights" if name.endswith("/W") or
\*              name.endswith("/weights") else "biases"
ParamType(name) ==
    IF EndsWith(name, SuffixW) \/ EndsWith(name, SuffixWeights)
    THEN "weights" ELSE "biases"

----------------------------------------------------------------------------
\* An array is its shape and its elements by multi-index (0-based).
RECURSIVE Indices(_)
Indices(shape) ==
    IF shape = << >> THEN { << >> }
    ELSE { << a >> \o rest : a \in 0..(shape[1] - 1), rest \in Indices(Tail(shape)) }

MkArray(shape, at) == [shape |-> shape, at |-> at]

\* Mutant of Size: param.ndim in place of param.size.
Size_Ndim(param) == Len(param.shape)

\* ndarray.size: the number of elements.
Size(param) == Cardinality(DOMAIN param.at)

\* ndarray.flatten(): the elements in C order, the last axis varying fastest.
RECURSIVE FlattenFrom(_, _, _)
RECURSIVE FlattenAxis(_, _, _, _)
FlattenFrom(at, shape, prefix) ==
    IF shape = << >> THEN << at[prefix] >>
    ELSE FlattenAxis(at, shape, prefix, 0)
FlattenAxis(at, shape, prefix, a) ==
    IF a >= shape[1] THEN << >>
    ELSE FlattenFrom(at, Tail(shape), Append(prefix, a))
           \o FlattenAxis(at, shape, prefix, a + 1)

\* Mutant of Flatten: flatten(order='F'), the first axis varying fastest.
Reverse(s) == [k \in 1..Len(s) |-> s[Len(s) + 1 - k]]
Flatten_Fortran(param) ==
    LET r == Len(param.shape)
        transposed == [idx \in Indices(Reverse(param.shape)) |-> param.at[Reverse(idx)]]
    IN  FlattenFrom(transposed, Reverse(param.shape), << >>)

Flatten(param) == FlattenFrom(param.at, param.shape, << >>)

\* param.flatten().astype(np.float32)
ParamFlat(param) ==
    LET flat == Flatten(param) IN [k \in 1..Len(flat) |-> AsFloat32(flat[k])]

----------------------------------------------------------------------------
\* The archives the model converts: ordered lists of members with distinct
\* names.  The pool covers both weight suffixes, names that collide on one
\* metadata key, a name with no '/', a name with two, a name with an empty
\* layer part, a name ending in W without the '/', a non-ASCII name, a rank-0
\* array, arrays with a zero dimension, negative values, zero, and float64
\* values that float32 cannot hold.
Pool ==
    { [name |-> << 99, 47, 87 >>,                                  \* "c/W"
       array |-> MkArray(<< 2, 3 >>,
                    [idx \in Indices(<< 2, 3 >>) |-> (10 * idx[1]) + idx[2] + 1])],
      [name |-> << 99, 47, 98 >>,                                  \* "c/b"
       array |-> MkArray(<< 2 >>,
                    [idx \in Indices(<< 2 >>) |-> 16777217 + (2 * idx[1])])],
      [name |-> << 99, 47, 98, 101, 116, 97 >>,                    \* "c/beta"
       array |-> MkArray(<< >>,
                    [idx \in Indices(<< >>) |-> 0 - 5])],
      [name |-> << 99, 47, 119, 101, 105, 103, 104, 116, 115 >>,   \* "c/weights"
       array |-> MkArray(<< 0 >>,
                    [idx \in Indices(<< 0 >>) |-> 0])],
      [name |-> << 87 >>,                                          \* "W"
       array |-> MkArray(<< 1, 2 >>,
                    [idx \in Indices(<< 1, 2 >>) |-> idx[2]])],
      [name |-> << 233, 47, 100, 47, 87 >>,                        \* "e-acute/d/W"
       array |-> MkArray(<< 2, 1, 2 >>,
                    [idx \in Indices(<< 2, 1, 2 >>) |-> 0 - ((4 * idx[1]) + idx[3] + 1)])],
      [name |-> << 47, 87 >>,                                      \* "/W"
       array |-> MkArray(<< 3 >>,
                    [idx \in Indices(<< 3 >>) |-> 100 * (idx[1] + 1)])],
      [name |-> << 120, 47, 98, 87 >>,                             \* "x/bW"
       array |-> MkArray(<< 2, 0 >>,
                    [idx \in Indices(<< 2, 0 >>) |-> 0])] }

Archives ==
    UNION { { a \in [1..n -> Pool] :
                \A p, q \in 1..n : p # q => a[p].name # a[q].name } :
            n \in 0..MaxMembers }

\* The archive of the concrete scenario: "conv1_1/W" of shape [3,3,3,64]
\* followed by "conv1_1/b" of shape [64].
ScenarioArchive ==
    << [name |-> << 99, 111, 110, 118, 49, 95, 49, 47, 87 >>,
        array |-> MkArray(<< 3, 3, 3, 64 >>,
                     [idx \in Indices(<< 3, 3, 3, 64 >>) |-> (idx[1] + (3 * idx[2]) + (9 * idx[3])) - idx[4]])],
       [name |-> << 99, 111, 110, 118, 49, 95, 49, 47, 98 >>,
        array |-> MkArray(<< 64 >>,
                     [idx \in Indices(<< 64 >>) |-> idx[1]])] >>

\* data.files and data[name] of the loaded archive.
Files(archive) == [k \in 1..Len(archive) |-> archive[k].name]
Get(archive, name) == archive[CHOOSE k \in 1..Len(archive) : archive[k].name = name].array

----------------------------------------------------------------------------
VARIABLES
    remote,     \* the archive served at the fixed URL
    npz,        \* the file at npz_path: [state, content]
    bin,        \* the file at bin_path: [exists, content]
    json,       \* the file at json_path: [state, content]
    data,       \* convert_model: the loaded archive
    metadata,   \* convert_model: the metadata dict
    i,          \* convert_model: position of the member loop in data.files
    j,          \* convert_model: position of the loop over param.shape
    pc,         \* the statement the process is at
    err,        \* the uncaught exception that ended the process
    netCalls    \* number of urlretrieve calls made so far

vars == << remote, npz, bin, json, data, metadata, i, j, pc, err, netCalls >>

EmptyDict == << >>

NoNpz == [state |-> "absent", content |-> << >>]
NoBin == [exists |-> FALSE, content |-> << >>]
NoJson == [state |-> "absent", content |-> EmptyDict]

\* The locals of the member loop.
CurName == Files(data)[i]
CurParam == Get(data, CurName)

\* Mutant of Tell: positions counted from the end of the count header.
Tell_AfterHeader == Len(bin.content) - 4

\* f.tell() of the binary file opened with 'wb' and only appended to.
Tell == Len(bin.content)

\* f.write(bytes)
Write(bytes) == [exists |-> TRUE, content |-> bin.content \o bytes]

Init ==
    /\ remote \in Archives
    /\ npz \in { NoNpz, [state |-> "ok", content |-> remote] }
    /\ bin = NoBin
    /\ json = NoJson
    /\ data = << >>
    /\ metadata = EmptyDict
    /\ i = 0
    /\ j = 0
    /\ pc = "main"
    /\ err = "none"
    /\ netCalls = 0

InitScenario ==
    /\ remote = ScenarioArchive
    /\ npz \in { NoNpz, [state |-> "ok", content |-> remote] }
    /\ bin = NoBin
    /\ json = NoJson
    /\ data = << >>
    /\ metadata = EmptyDict
    /\ i = 0
    /\ j = 0
    /\ pc = "main"
    /\ err = "none"
    /\ netCalls = 0

----------------------------------------------------------------------------
\* Mutant of Main_CheckExists: the download is unconditional.
Main_AlwaysDownload ==
    /\ pc = "main"
    /\ pc' = "download"
    /\ UNCHANGED << remote, npz, bin, json, data, metadata, i, j, err, netCalls >>

\* main(): if not os.path.exists(npz_path): download_model(url, npz_path)
Main_CheckExists ==
    /\ pc = "main"
    /\ pc' = IF npz.state = "absent" THEN "download" ELSE "convert"
    /\ UNCHANGED << remote, npz, bin, json, data, metadata, i, j, err, netCalls >>

\* download_model(): urlretrieve transfers the remote bytes to the path.
DownloadModel ==
    /\ pc = "download"
    /\ netCalls < MaxCalls
    /\ netCalls' = netCalls + 1
    /\ npz' = [state |-> "ok", content |-> remote]
    /\ pc' = "convert"
    /\ UNCHANGED << remote, bin, json, data, metadata, i, j, err >>

\* download_model(): urlretrieve raises; nothing or a partial file is left.
DownloadFail ==
    /\ pc = "download"
    /\ netCalls < MaxCalls
    /\ netCalls' = netCalls + 1
    /\ npz' \in { NoNpz, [state |-> "corrupt", content |-> << >>] }
    /\ pc' = "failed"
    /\ err' = "network"
    /\ UNCHANGED << remote, bin, json, data, metadata, i, j >>

\* convert_model(): data = np.load(npz_path); metadata = {}
LoadArchive ==
    /\ pc = "convert"
    /\ IF npz.state = "ok"
       THEN /\ data' = npz.content
            /\ metadata' = EmptyDict
            /\ pc' = "open"
            /\ err' = err
       ELSE /\ pc' = "failed"
            /\ err' = "archive"
            /\ UNCHANGED << data, metadata >>
    /\ UNCHANGED << remote, npz, bin, json, i, j, netCalls >>

\* Mutant of OpenBin: the header counts the metadata entries, none so far.
OpenBin_CountMetadata ==
    /\ pc = "open"
    /\ bin' = [exists |-> TRUE, content |-> Pack32(Cardinality(DOMAIN metadata))]
    /\ i' = 0
    /\ pc' = "for"
    /\ UNCHANGED << remote, npz, json, data, metadata, j, err, netCalls >>

\* with open(bin_path, 'wb') as f: f.write(struct.pack('i', len(data.files)))
OpenBin ==
    /\ pc = "open"
    /\ bin' = [exists |-> TRUE, content |-> Pack32(Len(Files(data)))]
    /\ i' = 0
    /\ pc' = "for"
    /\ UNCHANGED << remote, npz, json, data, metadata, j, err, netCalls >>

\* open(bin_path, 'wb') raises: the path is left as it was.
OpenFail ==
    /\ pc = "open"
    /\ pc' = "failed"
    /\ err' = "open"
    /\ UNCHANGED << remote, npz, bin, json, data, metadata, i, j, netCalls >>

\* for name in data.files: the next member, or the end of the with block,
\* which closes the binary file.
ForNext ==
    /\ pc = "for"
    /\ IF i < Len(Files(data))
       THEN /\ i' = i + 1
            /\ pc' = "meta"
       ELSE /\ i' = i
            /\ pc' = "dump"
    /\ UNCHANGED << remote, npz, bin, json, data, metadata, j, err, netCalls >>

\* The sub-entry stored for a parameter at write position pos.
MetaEntry(param, pos) ==
    [shape |-> param.shape, offset |-> pos, size |-> Size(param)]

\* Mutant of Assign: insert-if-absent, an existing sub-entry is kept.
Assign_IfAbsent(meta, layer, ptype, entry) ==
    LET m1 == IF layer \in DOMAIN meta
              THEN meta
              ELSE [l \in DOMAIN meta \cup { layer } |->
                      IF l = layer THEN EmptyDict ELSE meta[l]]
    IN  [l \in DOMAIN m1 |->
            IF l = layer
            THEN [t \in DOMAIN m1[l] \cup { ptype } |->
                    IF t \in DOMAIN m1[l] THEN m1[l][t] ELSE entry]
            ELSE m1[l]]

\* if layer_name not in metadata: metadata[layer_name] = {}
\* metadata[layer_name][param_type] = entry
Assign(meta, layer, ptype, entry) ==
    LET m1 == IF layer \in DOMAIN meta
              THEN meta
              ELSE [l \in DOMAIN meta \cup { layer } |->
                      IF l = layer THEN EmptyDict ELSE meta[l]]
    IN  [l \in DOMAIN m1 |->
            IF l = layer
            THEN [t \in DOMAIN m1[l] \cup { ptype } |->
                    IF t = ptype THEN entry ELSE m1[l][t]]
            ELSE m1[l]]

\* json.dump(metadata, f, indent=2): layer name -> sub-key -> entry, the
\* shape tuple written as a list.
Serialise(meta) ==
    [l \in DOMAIN meta |->
        [t \in DOMAIN meta[l] |->
            [shape |-> meta[l][t].shape,
             offset |-> meta[l][t].offset,
             size |-> meta[l][t].size]]]

\* Mutant of StoreMeta: the metadata file is rewritten inside the loop.
StoreMeta_DumpInLoop ==
    /\ pc = "meta"
    /\ metadata' = Assign(metadata, LayerName(CurName), ParamType(CurName),
                          MetaEntry(CurParam, Tell))
    /\ json' = [state |-> "complete", content |-> Serialise(metadata')]
    /\ pc' = "namelen"
    /\ UNCHANGED << remote, npz, bin, data, i, j, err, netCalls >>

\* param = data[name]; layer_name, param_type; the metadata assignment.
StoreMeta ==
    /\ pc = "meta"
    /\ metadata' = Assign(metadata, LayerName(CurName), ParamType(CurName),
                          MetaEntry(CurParam, Tell))
    /\ pc' = "namelen"
    /\ UNCHANGED << remote, npz, bin, json, data, i, j, err, netCalls >>

\* Mutant of WriteNameLen: len(name), the number of characters, is written.
WriteNameLen_Chars ==
    /\ pc = "namelen"
    /\ bin' = Write(Pack32(Len(CurName)))
    /\ pc' = "name"
    /\ UNCHANGED << remote, npz, json, data, metadata, i, j, err, netCalls >>

\* name_bytes = name.encode('utf-8'); f.write(struct.pack('i', len(name_bytes)))
WriteNameLen ==
    /\ pc = "namelen"
    /\ bin' = Write(Pack32(Len(Encode(CurName))))
    /\ pc' = "name"
    /\ UNCHANGED << remote, npz, json, data, metadata, i, j, err, netCalls >>

\* f.write(name_bytes)
WriteName ==
    /\ pc = "name"
    /\ bin' = Write(Encode(CurName))
    /\ pc' = "rank"
    /\ UNCHANGED << remote, npz, json, data, metadata, i, j, err, netCalls >>

\* f.write(struct.pack('i', len(param.shape)))
WriteRank ==
    /\ pc = "rank"
    /\ bin' = Write(Pack32(Len(CurParam.shape)))
    /\ j' = 0
    /\ pc' = "dims"
    /\ UNCHANGED << remote, npz, json, data, metadata, i, err, netCalls >>

\* for dim in param.shape: f.write(struct.pack('i', dim))
WriteDim ==
    /\ pc = "dims"
    /\ IF j < Len(CurParam.shape)
       THEN /\ bin' = Write(Pack32(CurParam.shape[j + 1]))
            /\ j' = j + 1
            /\ pc' = pc
       ELSE /\ pc' = "data"
            /\ UNCHANGED << bin, j >>
    /\ UNCHANGED << remote, npz, json, data, metadata, i, err, netCalls >>

\* param_flat = param.flatten().astype(np.float32)
\* f.write(struct.pack(f'{len(param_flat)}f', *param_flat))
WriteData ==
    /\ pc = "data"
    /\ bin' = Write(PackFloats(ParamFlat(CurParam)))
    /\ pc' = "for"
    /\ UNCHANGED << remote, npz, json, data, metadata, i, j, err, netCalls >>

\* A statement of the member loop that reads the archive or writes the
\* binary file raises.  The with block closes the file: the buffered bytes
\* reach the disk, or (the flush is what failed) none of them does, the
\* files here being smaller than the write buffer.
LoopFail ==
    /\ \/ pc \in { "meta", "namelen", "name", "rank" }
       \/ pc = "dims" /\ j < Len(CurParam.shape)
       \/ pc = "data" /\ Size(CurParam) > 0
    /\ bin' \in { bin, [exists |-> TRUE, content |-> << >>] }
    /\ pc' = "failed"
    /\ err' = "loop"
    /\ UNCHANGED << remote, npz, json, data, metadata, i, j, netCalls >>

\* with open(json_path, 'w') as f: json.dump(metadata, f, indent=2)
DumpJson ==
    /\ pc = "dump"
    /\ json' = [state |-> "complete", content |-> Serialise(metadata)]
    /\ pc' = "done"
    /\ UNCHANGED << remote, npz, bin, data, metadata, i, j, err, netCalls >>

\* Opening or writing the metadata file raises: the path is left as it was,
\* or holds an incomplete document.
DumpFail ==
    /\ pc = "dump"
    /\ json' \in { json, [state |-> "partial", content |-> EmptyDict] }
    /\ pc' = "failed"
    /\ err' = "json"
    /\ UNCHANGED << remote, npz, bin, data, metadata, i, j, netCalls >>

\* The script is run again: a new process, the files as the last one left them.
Rerun ==
    /\ pc \in { "done", "failed" }
    /\ pc' = "main"
    /\ err' = "none"
    /\ data' = << >>
    /\ metadata' = EmptyDict
    /\ i' = 0
    /\ j' = 0
    /\ UNCHANGED << remote, npz, bin, json, netCalls >>

Next ==
    \/ Main_CheckExists
    \/ DownloadModel
    \/ DownloadFail
    \/ LoadArchive
    \/ OpenBin
    \/ OpenFail
    \/ ForNext
    \/ StoreMeta
    \/ WriteNameLen
    \/ WriteName
    \/ WriteRank
    \/ WriteDim
    \/ WriteData
    \/ LoopFail
    \/ DumpJson
    \/ DumpFail
    \/ Rerun

Spec == Init /\ [][Next]_vars

SpecScenario == InitScenario /\ [][Next]_vars

----------------------------------------------------------------------------
\* The properties.  They are stated with a reader of the documented layout,
\* independent of the writer above: int32 count, then per record int32 name
\* byte-length, name bytes, int32 rank, rank int32 dims and product(shape)
\* float32 values.  Offsets are 0-based byte positions.

ReadI32(b, p) ==
    LET low == b[p + 1] + (256 * b[p + 2]) + (65536 * b[p + 3])
                 + (16777216 * (b[p + 4] % 128))
    IN  IF b[p + 4] >= 128 THEN (low - 2147483647) - 1 ELSE low

NotAnInteger == 0 - 2147483647

\* The value of a binary32, for the integers of magnitude below 2^31.
ReadF32(b, p) ==
    LET s == b[p + 4] \div 128
        E == ((b[p + 4] % 128) * 2) + (b[p + 3] \div 128)
        F == ((b[p + 3] % 128) * 65536) + (b[p + 2] * 256) + b[p + 1]
        mant == 8388608 + F
        e == E - 127
    IN  IF E = 0 /\ F = 0 THEN 0
        ELSE IF e < 0 \/ e > 30 THEN NotAnInteger
        ELSE IF e < 23 /\ mant % Pow2(23 - e) # 0 THEN NotAnInteger
        ELSE LET mag == IF e >= 23 THEN mant * Pow2(e - 23) ELSE mant \div Pow2(23 - e)
             IN  IF s = 1 THEN 0 - mag ELSE mag

RECURSIVE DecodeUtf8(_)
DecodeUtf8(b) ==
    IF b = << >> THEN << >>
    ELSE LET n == IF b[1] < 128 THEN 1
                  ELSE IF b[1] < 224 THEN 2
                  ELSE IF b[1] < 240 THEN 3 ELSE 4
         IN  IF Len(b) < n \/ (b[1] >= 128 /\ b[1] < 192) THEN << 0 - 1 >>
             ELSE LET c == IF n = 1 THEN b[1]
                           ELSE IF n = 2 THEN ((b[1] - 192) * 64) + (b[2] - 128)
                           ELSE IF n = 3
                                THEN ((b[1] - 224) * 4096) + ((b[2] - 128) * 64)
                                       + (b[3] - 128)
                           ELSE ((b[1] - 240) * 262144) + ((b[2] - 128) * 4096)
                                  + ((b[3] - 128) * 64) + (b[4] - 128)
                  IN  << c >> \o DecodeUtf8(SubSeq(b, n + 1, Len(b)))

RECURSIVE Product(_)
Product(shape) == IF shape = << >> THEN 1 ELSE Head(shape) * Product(Tail(shape))

Bad == [ok |-> FALSE, recs |-> << >>, end |-> 0]

RECURSIVE DecodeRecords(_, _, _)
DecodeRecords(b, p, n) ==
    IF n = 0 THEN [ok |-> TRUE, recs |-> << >>, end |-> p]
    ELSE IF p + 4 > Len(b) THEN Bad
    ELSE LET nl == ReadI32(b, p) IN
    IF nl < 0 \/ p + 8 + nl > Len(b) THEN Bad
    ELSE LET rank == ReadI32(b, p + 4 + nl) IN
    IF rank < 0 \/ p + 8 + nl + (4 * rank) > Len(b) THEN Bad
    ELSE LET shape == [d \in 1..rank |-> ReadI32(b, p + 8 + nl + (4 * (d - 1)))]
             q == p + 8 + nl + (4 * rank)
             size == Product(shape)
         IN
    IF size < 0 \/ q + (4 * size) > Len(b) THEN Bad
    ELSE LET rec == [start |-> p,
                     name |-> DecodeUtf8(SubSeq(b, p + 5, p + 4 + nl)),
                     shape |-> shape,
                     values |-> [k \in 1..size |-> ReadF32(b, q + (4 * (k - 1)))]]
             rest == DecodeRecords(b, q + (4 * size), n - 1)
         IN  IF rest.ok
             THEN [ok |-> TRUE, recs |-> << rec >> \o rest.recs, end |-> rest.end]
             ELSE Bad

DecodeFile(b) ==
    IF Len(b) < 4 THEN Bad
    ELSE IF ReadI32(b, 0) < 0 THEN Bad
    ELSE DecodeRecords(b, 4, ReadI32(b, 0))

\* The position of a multi-index in row-major order.
RECURSIVE RavelFrom(_, _, _, _)
RavelFrom(idx, shape, d, acc) ==
    IF d > Len(shape) THEN acc
    ELSE RavelFrom(idx, shape, d + 1, (acc * shape[d]) + idx[d])
Ravel(idx, shape) == RavelFrom(idx, shape, 1, 0)

\* float32 can hold the integer n.
Representable(n) ==
    \/ Abs(n) < 16777216
    \/ Abs(n) % Pow2(Log2Floor(Abs(n)) - 23) = 0

\* d is a float32 value nearest to x (x of magnitude below 2^26).
NearestFloat32(d, x) ==
    /\ Representable(d)
    /\ \A r \in (x - 4)..(x + 4) : Representable(r) => Abs(d - x) <= Abs(r - x)

\* values holds the elements of array in row-major order, exactly.
RowMajorExact(values, array) ==
    /\ Len(values) = Product(array.shape)
    /\ \A idx \in DOMAIN array.at : values[Ravel(idx, array.shape) + 1] = array.at[idx]

\* values holds the elements of array in row-major order, each as float32.
RowMajorFloat32(values, array) ==
    /\ Len(values) = Product(array.shape)
    /\ \A idx \in DOMAIN array.at :
          NearestFloat32(values[Ravel(idx, array.shape) + 1], array.at[idx])

Decoded == DecodeFile(bin.content)

\* C1 as stated: decoding the binary file of a completed conversion yields
\* the archive's members in order, the k-th record with the k-th member's
\* name, shape and row-major values exactly, and nothing is left over.
C1_RoundTripExact ==
    pc = "done" =>
        /\ Decoded.ok
        /\ Decoded.end = Len(bin.content)
        /\ Len(Decoded.recs) = Len(data)
        /\ \A k \in 1..Len(data) :
              /\ Decoded.recs[k].name = data[k].name
              /\ Decoded.recs[k].shape = data[k].array.shape
              /\ RowMajorExact(Decoded.recs[k].values, data[k].array)

\* C1 amended: decoding the binary file of a completed conversion yields the
\* archive's members in order, the k-th record with the k-th member's name,
\* shape and row-major values, each value rounded to the nearest float32
\* (the value itself when float32 can hold it), and nothing is left over.
C1_RoundTripFloat32 ==
    pc = "done" =>
        /\ Decoded.ok
        /\ Decoded.end = Len(bin.content)
        /\ Len(Decoded.recs) = Len(data)
        /\ \A k \in 1..Len(data) :
              /\ Decoded.recs[k].name = data[k].name
              /\ Decoded.recs[k].shape = data[k].array.shape
              /\ RowMajorFloat32(Decoded.recs[k].values, data[k].array)

\* A completed conversion of two members, one of rank 2 or more and one
\* holding a value float32 cannot represent.
C1_Witness ==
    /\ pc = "done"
    /\ Len(data) = 2
    /\ \E k \in 1..2 : Len(data[k].array.shape) >= 2 /\ Size(data[k].array) >= 4
    /\ \E k \in 1..2 : \E idx \in DOMAIN data[k].array.at :
          ~Representable(data[k].array.at[idx])

\* C2: after a completed conversion the first 4-byte integer of the binary
\* file is the number of members N, and exactly N records follow it.
C2_HeaderCount ==
    pc = "done" =>
        /\ Len(bin.content) >= 4
        /\ ReadI32(bin.content, 0) = Len(data)
        /\ Decoded.ok
        /\ Len(Decoded.recs) = Len(data)
        /\ Decoded.end = Len(bin.content)

C2_Witness ==
    /\ pc = "done"
    /\ Len(data) = MaxMembers
    /\ ReadI32(bin.content, 0) = MaxMembers

----------------------------------------------------------------------------
\* The record layout, from the archive: the bytes of one record and the
\* position at which the k-th record starts.
Utf8Len(name) ==
    LET n1 == Cardinality({ p \in 1..Len(name) : name[p] < 128 })
        n2 == Cardinality({ p \in 1..Len(name) : name[p] >= 128 /\ name[p] < 2048 })
        n3 == Cardinality({ p \in 1..Len(name) : name[p] >= 2048 /\ name[p] < 65536 })
        n4 == Cardinality({ p \in 1..Len(name) : name[p] >= 65536 })
    IN  n1 + (2 * n2) + (3 * n3) + (4 * n4)

RecordBytes(member) ==
    4 + Utf8Len(member.name) + 4 + (4 * Len(member.array.shape))
      + (4 * Product(member.array.shape))

RECURSIVE RecordStart(_, _)
RecordStart(archive, k) ==
    IF k = 1 THEN 4 ELSE RecordStart(archive, k - 1) + RecordBytes(archive[k - 1])

\* The classification of a name, by character positions.
HasSlash(name) == \E p \in 1..Len(name) : name[p] = Slash

LayerKey(name) ==
    IF HasSlash(name)
    THEN LET p == CHOOSE p \in 1..Len(name) :
                    name[p] = Slash /\ \A q \in 1..(p - 1) : name[q] # Slash
         IN  [k \in 1..(p - 1) |-> name[k]]
    ELSE name

SubKey(name) ==
    LET n == Len(name)
    IN  IF \/ n >= 2 /\ name[n - 1] = 47 /\ name[n] = 87
           \/ n >= 8 /\ \A k \in 1..8 : name[n - 8 + k] = SuffixWeights[k]
        THEN "weights" ELSE "biases"

\* The metadata sub-entries of the metadata file, as (layer, sub-key) pairs.
Pairs(meta) == { << l, t >> : l \in DOMAIN meta, t \in { "weights", "biases" } }
SubEntries(meta) == { pr \in Pairs(meta) : pr[2] \in DOMAIN meta[pr[1]] }

\* The last member of the archive filed under a (layer, sub-key) pair.
Members(archive, pr) ==
    { k \in 1..Len(archive) :
        LayerKey(archive[k].name) = pr[1] /\ SubKey(archive[k].name) = pr[2] }
LastMember(archive, pr) ==
    CHOOSE k \in Members(archive, pr) : \A m \in Members(archive, pr) : m <= k

\* The sub-entry the member loop has just stored for the current member.
CurEntry == metadata[LayerName(CurName)][ParamType(CurName)]

\* C3: the offset of a metadata sub-entry is the write position at which its
\* record starts: 4 for the first member, and for the member at index k, 4
\* plus the bytes of all earlier records (4 + name byte-length + 4 + 4*rank
\* + 4*size each).
C3_OffsetIsRecordStart ==
    /\ pc \in { "namelen", "name", "rank", "dims", "data" }
          => CurEntry.offset = RecordStart(data, i)
    /\ pc = "done" =>
          \A pr \in SubEntries(json.content) :
              /\ Members(data, pr) # { }
              /\ json.content[pr[1]][pr[2]].offset = RecordStart(data, LastMember(data, pr))

\* A completed conversion whose first name is not ASCII and whose second
\* member has its own sub-entry.
C3_Witness ==
    /\ pc = "done"
    /\ Len(data) = 2
    /\ \E p \in 1..Len(data[1].name) : data[1].name[p] >= 128
    /\ \E pr \in SubEntries(json.content) :
          /\ LastMember(data, pr) = 2
          /\ json.content[pr[1]][pr[2]].offset = 4 + RecordBytes(data[1])

\* size float32 values read at byte position p of the binary file.
InBounds(p, n) == p >= 0 /\ n >= 0 /\ p + (4 * n) <= Len(bin.content)
FloatsAt(p, n) == [k \in 1..n |-> ReadF32(bin.content, p + (4 * (k - 1)))]

\* The position of the float payload of the record that starts at p, from
\* the name-length and rank fields of the file.
PayloadOf(p) ==
    LET nl == ReadI32(bin.content, p)
        rank == ReadI32(bin.content, p + 4 + nl)
    IN  p + 4 + nl + 4 + (4 * rank)

\* C4 as stated: the offset of a metadata sub-entry is the position of the
\* record's float payload: size float32 values read at offset are the
\* parameter's data.
C4_OffsetIsPayload ==
    pc = "done" =>
        \A pr \in SubEntries(json.content) :
            LET e == json.content[pr[1]][pr[2]]
            IN  /\ InBounds(e.offset, e.size)
                /\ RowMajorFloat32(FloatsAt(e.offset, e.size),
                                   data[LastMember(data, pr)].array)

\* C4 amended: the offset of a metadata sub-entry is the position of the
\* record's name-length field; the float payload lies 4 + name byte-length
\* + 4 + 4*rank bytes further, and size float32 values read there are the
\* parameter's data.
C4_PayloadFollowsOffset ==
    pc = "done" =>
        \A pr \in SubEntries(json.content) :
            LET e == json.content[pr[1]][pr[2]]
                m == data[LastMember(data, pr)]
            IN  /\ InBounds(e.offset, 1)
                /\ ReadI32(bin.content, e.offset) = Utf8Len(m.name)
                /\ InBounds(e.offset + 4 + Utf8Len(m.name), 1)
                /\ PayloadOf(e.offset) = e.offset + 8 + Utf8Len(m.name) + (4 * Len(e.shape))
                /\ InBounds(PayloadOf(e.offset), e.size)
                /\ RowMajorFloat32(FloatsAt(PayloadOf(e.offset), e.size), m.array)

\* A completed conversion with a sub-entry of a non-empty array whose name
\* is not ASCII.
C4_Witness ==
    /\ pc = "done"
    /\ \E pr \in SubEntries(json.content) :
          /\ json.content[pr[1]][pr[2]].size >= 4
          /\ \E p \in 1..Len(data[LastMember(data, pr)].name) :
                data[LastMember(data, pr)].name[p] >= 128

----------------------------------------------------------------------------
\* The concrete scenario: "conv1_1/W" [3,3,3,64] then "conv1_1/b" [64].
Conv11 == << 99, 111, 110, 118, 49, 95, 49 >>    \* "conv1_1"

ScenarioOutput(gap) ==
    /\ ReadI32(bin.content, 0) = 2
    /\ DOMAIN json.content = { Conv11 }
    /\ DOMAIN json.content[Conv11] = { "weights", "biases" }
    /\ json.content[Conv11]["weights"].shape = << 3, 3, 3, 64 >>
    /\ json.content[Conv11]["weights"].size = 1728
    /\ json.content[Conv11]["biases"].shape = << 64 >>
    /\ json.content[Conv11]["biases"].size = 64
    /\ json.content[Conv11]["biases"].offset
          = json.content[Conv11]["weights"].offset + gap + (1728 * 4)
    /\ Decoded.ok
    /\ Len(Decoded.recs) = 2
    /\ \A k \in 1..2 :
          /\ Decoded.recs[k].name = data[k].name
          /\ Decoded.recs[k].shape = data[k].array.shape
          /\ RowMajorFloat32(Decoded.recs[k].values, data[k].array)

\* C5 as stated: the scenario's conversion writes header 2 and metadata with
\* conv1_1.weights of size 1728 at O1 and conv1_1.biases of size 64 at O2,
\* with O2 = O1 + 16 + 1728*4.
C5_ScenarioGap16 == pc = "done" => ScenarioOutput(16)

\* C5 amended: as stated, with O2 = O1 + 33 + 1728*4 (4 name-length bytes,
\* 9 name bytes, 4 rank bytes and 16 bytes of dims precede the payload).
C5_ScenarioGap33 == pc = "done" => ScenarioOutput(33)

\* The scenario's conversion has completed.
C5_Witness ==
    /\ pc = "done"
    /\ Len(data) = 2
    /\ data[1].array.shape = << 3, 3, 3, 64 >>
    /\ json.state = "complete"
    /\ json.content[Conv11]["weights"].offset = 4
    /\ json.content[Conv11]["biases"].offset = 6949

\* C6: the size of a record's metadata sub-entry is the product of the
\* dimensions of its stored shape, and the number of float32 values written
\* to the binary file for the record (1 for rank 0, 0 with a zero dimension).
C6_SizeIsProduct ==
    [][ /\ (pc = "data" /\ pc' = "for") =>
              /\ CurEntry.size = Product(CurEntry.shape)
              /\ Len(bin'.content) - Len(bin.content) = 4 * CurEntry.size
        /\ pc' = "done" =>
              \A pr \in SubEntries(json'.content) :
                  json'.content[pr[1]][pr[2]].size
                     = Product(json'.content[pr[1]][pr[2]].shape) ]_vars

\* A completed conversion with a rank-0 record of size 1 and a record with a
\* zero dimension of size 0.
C6_Witness ==
    /\ pc = "done"
    /\ \E pr \in SubEntries(json.content) :
          /\ json.content[pr[1]][pr[2]].shape = << >>
          /\ json.content[pr[1]][pr[2]].size = 1
    /\ \E pr \in SubEntries(json.content) :
          /\ Len(json.content[pr[1]][pr[2]].shape) >= 1
          /\ json.content[pr[1]][pr[2]].size = 0

\* C7: a member is filed under the layer key that is the part of its name
\* before the first '/' (the whole name without a '/'), and under "weights"
\* exactly when the name ends with "/W" or "/weights", else under "biases";
\* a name with no '/' is filed under "biases" of the layer named after it.
C7_Classification ==
    pc = "namelen" =>
        /\ LayerKey(CurName) \in DOMAIN metadata
        /\ SubKey(CurName) \in DOMAIN metadata[LayerKey(CurName)]
        /\ metadata[LayerKey(CurName)][SubKey(CurName)]
              = [shape |-> CurParam.shape, offset |-> Len(bin.content),
                 size |-> Product(CurParam.shape)]
        /\ ~HasSlash(CurName) =>
              /\ CurName \in DOMAIN metadata
              /\ "biases" \in DOMAIN metadata[CurName]
              /\ metadata[CurName]["biases"].offset = Len(bin.content)

\* A name with no '/' that ends in W has just been filed.
C7_Witness ==
    /\ pc = "namelen"
    /\ ~HasSlash(CurName)
    /\ CurName[Len(CurName)] = 87
    /\ "biases" \in DOMAIN metadata[CurName]

\* C8: the download is performed exactly when no file exists at the archive
\* path at the check and no network call is made when it exists; a completed
\* run leaves the archive in place, so the next run downloads nothing; the
\* conversion starts only after the fetch step, and on every run in which
\* the fetch step did not fail.
C8_FetchOnlyWhenAbsent ==
    [][ /\ netCalls' # netCalls => (pc = "download" /\ npz.state = "absent")
        /\ pc = "main" =>
              /\ netCalls' = netCalls
              /\ pc' = "download" <=> npz.state = "absent"
              /\ pc' = "convert" <=> npz.state # "absent"
        /\ pc = "download" => (pc' = "convert" <=> err' = "none")
        /\ pc' = "convert" => (pc \in { "main", "download" } /\ npz'.state # "absent")
        /\ pc' = "done" => npz'.state = "ok"
        /\ pc = "done" => (pc' = "main" /\ npz' = npz /\ npz.state = "ok") ]_vars

\* A second run, after a completed run that downloaded the archive, has
\* reached the conversion with still one network call made.
C8_Witness ==
    /\ pc = "convert"
    /\ json.state = "complete"
    /\ npz.state = "ok"
    /\ netCalls = 1

\* C9 as stated: after a failure in the member loop, some but not all records
\* written, no metadata file exists at the metadata path.
C9_NoMetadataAfterLoopFailure ==
    (pc = "failed" /\ err = "loop" /\ i >= 2) => json.state = "absent"

\* C9 amended: the metadata file is written only after every record has been
\* written and the binary file closed; a run that fails in the member loop
\* leaves a truncated binary file and does not touch the metadata path,
\* which keeps what it held before the run: nothing, or the metadata file
\* of an earlier run.
C9_LoopFailureKeepsMetadata ==
    [][ /\ json' # json =>
              /\ pc = "dump"
              /\ Decoded.ok
              /\ Len(Decoded.recs) = Len(data)
              /\ Decoded.end = Len(bin.content)
        /\ (pc' = "failed" /\ err' = "loop") =>
              /\ json' = json
              /\ bin'.exists
              /\ ~DecodeFile(bin'.content).ok ]_vars

\* A run has failed in the member loop after its first record, with the
\* metadata file of an earlier run in place.
C9_Witness ==
    /\ pc = "failed"
    /\ err = "loop"
    /\ i >= 2
    /\ Len(bin.content) > 4
    /\ json.state = "complete"

\* Two members of the archive are filed under the same (layer, sub-key) pair.
Collision(archive) ==
    \E p, q \in 1..Len(archive) :
        /\ p < q
        /\ LayerKey(archive[p].name) = LayerKey(archive[q].name)
        /\ SubKey(archive[p].name) = SubKey(archive[q].name)

\* C10: the metadata sub-entries are the distinct (layer key, sub-key) pairs
\* of the member names, each holding the shape, offset and size of the last
\* member filed under it, at most two per layer; with a collision, some
\* record is referred to by no metadata offset and the sub-entries are fewer
\* than the header count.
C10_LastMemberWins ==
    pc = "done" =>
        LET entries == SubEntries(json.content)
            offsets == { json.content[pr[1]][pr[2]].offset : pr \in entries }
        IN  /\ entries = { << LayerKey(data[k].name), SubKey(data[k].name) >> :
                              k \in 1..Len(data) }
            /\ \A pr \in entries :
                  json.content[pr[1]][pr[2]]
                     = [shape |-> data[LastMember(data, pr)].array.shape,
                        offset |-> RecordStart(data, LastMember(data, pr)),
                        size |-> Product(data[LastMember(data, pr)].array.shape)]
            /\ \A l \in DOMAIN json.content :
                  /\ DOMAIN json.content[l] \subseteq { "weights", "biases" }
                  /\ DOMAIN json.content[l] # { }
            /\ Collision(data) =>
                  /\ \E k \in 1..Len(data) : RecordStart(data, k) \notin offsets
                  /\ Cardinality(entries) < ReadI32(bin.content, 0)

\* A completed conversion of two members filed under the same pair.
C10_Witness ==
    /\ pc = "done"
    /\ Len(data) = 2
    /\ Collision(data)
    /\ Cardinality(SubEntries(json.content)) = 1

====
